---------------------------- MODULE Spec2Model ----------------------------
(***************************************************************************)
(* Model of the Aozora Bunko tools:                                        *)
(*   download_aozora_zip.py  - link collection and archive download        *)
(*   aozora_unzip_utf8.py    - safe extraction and Shift_JIS -> UTF-8      *)
(*                                                                         *)
(* Four specifications share the module, one per independent part of the   *)
(* program:                                                                *)
(*   SpecFetch    runs of download_aozora_zip.main against one output dir  *)
(*   SpecExtract  process_zip's member loop over one archive               *)
(*   SpecConvert  convert_text_file_in_place applied twice to one file     *)
(*   SpecSafeName safe_folder_name applied to one name                     *)
(* The variables of the parts a specification does not exercise stay at    *)
(* their idle values.                                                      *)
(***************************************************************************)
EXTENDS Integers, Sequences, FiniteSets, TLC

VARIABLES
    \* ---- download_aozora_zip.py ----
    site,         \* per card page: the hrefs ending in ".zip", in document order
    fs,           \* output directory: file name -> sequence of chunks written
    fs0,          \* the output directory as it was when the current run started
    pc,           \* position of the current run inside main / download_file
    runs,         \* number of runs started so far
    card_idx,     \* loop variable idx of the card loop (0 before the loop)
    all_zips,     \* main's all_zips: (title, zip_url) records
    unique_zips,  \* main's unique_zips
    file_id,      \* loop variable file_id of the download loop
    chunk_pos,    \* chunks of the response body written to the open .part file
    page_reqs,    \* GET requests for HTML pages issued by the current run
    dl_reqs,      \* GET requests for archives issued by the current run
    exit_code,    \* exit status of the run that ended last (-1 while a run is going)
    attempts,     \* calls download_file(url, name) made by the current run
    \* ---- aozora_unzip_utf8.py : process_zip / extract_member ----
    dirs,         \* directories that exist, as absolute component sequences
    files,        \* regular files that exist
    xphase,       \* "off" | "start" | "open" | "closed" | "aborted" | "badzip" | "exited"
    nmembers,     \* len(z.infolist()) of the archive being processed
    outcomes,     \* what happened to each member processed so far, in order
    last,         \* observations on the member processed last
    x_exit,       \* exit status of aozora_unzip_utf8.main (-1: still running)
    \* ---- aozora_unzip_utf8.py : convert_text_file_in_place ----
    cPhase,       \* "off" | "fresh" | "once" | "twice"
    cExt,         \* path.suffix of the file, as a sequence of characters
    cOrig,        \* the file's bytes before any conversion
    cData,        \* the file's current bytes
    cAfter1,      \* the file's bytes after the first application
    cUsed1,       \* return value of the first application ("None" for None)
    cUsed2,       \* return value of the second application
    \* ---- aozora_unzip_utf8.py : safe_folder_name ----
    sPhase,       \* "off" | "input" | "done"
    sInput,       \* the argument, as a sequence of characters
    sResult       \* the returned name

fetchVars   == <<site, fs, fs0, pc, runs, card_idx, all_zips, unique_zips,
                 file_id, chunk_pos, page_reqs, dl_reqs, exit_code, attempts>>
extractVars == <<dirs, files, xphase, nmembers, outcomes, last, x_exit>>
convVars    == <<cPhase, cExt, cOrig, cData, cAfter1, cUsed1, cUsed2>>
safeVars    == <<sPhase, sInput, sResult>>
vars        == <<fetchVars, extractVars, convVars, safeVars>>

(***************************************************************************)
(* Small helpers on sequences.                                             *)
(***************************************************************************)
RECURSIVE SeqsUpTo(_, _)
SeqsUpTo(S, n) ==
    IF n = 0 THEN {<<>>}
    ELSE LET shorter == SeqsUpTo(S, n - 1)
         IN  shorter \cup {Append(s, x) : s \in {t \in shorter : Len(t) = n - 1}, x \in S}

Range(s) == {s[i] : i \in 1..Len(s)}

IsPrefix(p, s) == Len(p) <= Len(s) /\ SubSeq(s, 1, Len(p)) = p

(***************************************************************************)
(*                      safe_folder_name                                   *)
(***************************************************************************)
MaxNameLen == 3

\* characters the names are drawn from: a letter, the two stripped
\* characters and two of the characters the regular expression replaces
NameChars == {"a", " ", ".", "/", "*"}

\* the character class of the regular expression at line 37
ForbiddenChars == {"\\", "/", ":", "*", "?", "\"", "<", ">", "|"}

\* str.strip() without argument strips whitespace
Whitespace == {" ", "\t", "\n", "\r"}

\* re.sub(r"[\\/:*?\"<>|]+", "_", name): every maximal run becomes one "_"
RECURSIVE ReSubFrom(_, _)
ReSubFrom(name, i) ==
    IF i > Len(name) THEN <<>>
    ELSE IF name[i] \in ForbiddenChars
         THEN IF i > 1 /\ name[i - 1] \in ForbiddenChars
              THEN ReSubFrom(name, i + 1)
              ELSE <<"_">> \o ReSubFrom(name, i + 1)
         ELSE <<name[i]>> \o ReSubFrom(name, i + 1)

RECURSIVE LStrip(_, _)
LStrip(s, chars) ==
    IF s # <<>> /\ Head(s) \in chars THEN LStrip(Tail(s), chars) ELSE s

RECURSIVE RStrip(_, _)
RStrip(s, chars) ==
    IF s # <<>> /\ s[Len(s)] \in chars THEN RStrip(SubSeq(s, 1, Len(s) - 1), chars) ELSE s

Strip(s, chars) == RStrip(LStrip(s, chars), chars)

safe_folder_name(name) ==
    LET subbed   == ReSubFrom(name, 1)
        stripped == Strip(Strip(subbed, Whitespace), {"."})
    IN  IF stripped = <<>> THEN <<"z", "i", "p">> ELSE stripped

InitSafeIdle ==
    /\ sPhase = "off"
    /\ sInput = <<>>
    /\ sResult = <<>>

InitSafe ==
    /\ sPhase = "input"
    /\ sInput \in SeqsUpTo(NameChars, MaxNameLen)
    /\ sResult = <<>>

Sanitize ==
    /\ sPhase = "input"
    /\ sResult' = safe_folder_name(sInput)
    /\ sPhase' = "done"
    /\ UNCHANGED <<sInput, fetchVars, extractVars, convVars>>

(***************************************************************************)
(*                  convert_text_file_in_place                             *)
(***************************************************************************)
MaxLen == 3

\* Bytes the file contents are drawn from:
\*   0x00 null, 0x41 'A', 0x81 0x87 0x9F Shift_JIS lead bytes,
\*   0xAD 0xC2 halfwidth katakana (0xC2 is also a UTF-8 lead byte and 0xAD a
\*   UTF-8 continuation byte, so <<0xC2, 0xAD>> is valid UTF-8)
ByteAlphabet == {0, 65, 129, 135, 159, 173, 194}

\* path.suffix values the files are drawn from
Suffixes == { <<".", "t", "x", "t">>, <<".", "T", "X", "T">>, <<".", "H", "t", "m">>,
              <<".", "h", "t", "m", "l">>, <<".", "p", "n", "g">>, <<".", "t", "x">>, <<>> }

LowerChar(c) ==
    CASE c = "T" -> "t" [] c = "X" -> "x" [] c = "H" -> "h"
      [] c = "M" -> "m" [] c = "L" -> "l" [] OTHER -> c

Lower(s) == [i \in 1..Len(s) |-> LowerChar(s[i])]

TEXT_EXTS == { <<".", "t", "x", "t">>, <<".", "h", "t", "m">>, <<".", "h", "t", "m", "l">> }

ENCODING_CANDIDATES_Reordered == <<"shift_jis_2004", "shift_jisx0213", "shift_jis", "cp932">>

ENCODING_CANDIDATES == <<"cp932", "shift_jis", "shift_jisx0213", "shift_jis_2004">>

\* ---- the UTF-8 codec (data.decode("utf-8") and write_text(encoding="utf-8")) ----
IsCont(b) == b >= 128 /\ b <= 191

RECURSIVE Utf8ValidFrom(_, _)
Utf8ValidFrom(d, i) ==
    IF i > Len(d) THEN TRUE
    ELSE LET b == d[i]
             n == Len(d)
         IN  IF b < 128 THEN Utf8ValidFrom(d, i + 1)
             ELSE IF b >= 194 /\ b <= 223
                  THEN i + 1 <= n /\ IsCont(d[i + 1]) /\ Utf8ValidFrom(d, i + 2)
             ELSE IF b >= 224 /\ b <= 239
                  THEN /\ i + 2 <= n
                       /\ d[i + 1] >= (IF b = 224 THEN 160 ELSE 128)
                       /\ d[i + 1] <= (IF b = 237 THEN 159 ELSE 191)
                       /\ IsCont(d[i + 2])
                       /\ Utf8ValidFrom(d, i + 3)
             ELSE IF b >= 240 /\ b <= 244
                  THEN /\ i + 3 <= n
                       /\ d[i + 1] >= (IF b = 240 THEN 144 ELSE 128)
                       /\ d[i + 1] <= (IF b = 244 THEN 143 ELSE 191)
                       /\ IsCont(d[i + 2])
                       /\ IsCont(d[i + 3])
                       /\ Utf8ValidFrom(d, i + 4)
             ELSE FALSE

\* data.decode("utf-8") does not raise
IsValidUtf8(d) == Utf8ValidFrom(d, 1)

Utf8Encode(cp) ==
    IF cp < 128 THEN <<cp>>
    ELSE IF cp < 2048 THEN <<192 + (cp \div 64), 128 + (cp % 64)>>
    ELSE IF cp < 65536
         THEN <<224 + (cp \div 4096), 128 + ((cp \div 64) % 64), 128 + (cp % 64)>>
    ELSE <<240 + (cp \div 262144), 128 + ((cp \div 4096) % 64),
           128 + ((cp \div 64) % 64), 128 + (cp % 64)>>

RECURSIVE EncodeText(_)
EncodeText(text) ==
    IF text = <<>> THEN <<>> ELSE Utf8Encode(Head(text)) \o EncodeText(Tail(text))

\* ---- the Shift_JIS family codecs on ByteAlphabet ----
\* single-byte characters (the same in the four codecs on ByteAlphabet);
\* -1 = the byte is not a character by itself
SingleChar(b) ==
    CASE b = 0 -> 0 [] b = 65 -> 65 [] b = 173 -> 65389 [] b = 194 -> 65410 [] OTHER -> -1

IsSingle(b) == b \in {0, 65, 173, 194}

\* two-byte characters: <<lead, trail>> -> code point
PairChar(a, b) ==
    CASE a = 129 /\ b = 65  -> 12289 [] a = 129 /\ b = 129 -> 65309
      [] a = 129 /\ b = 135 -> 8734  [] a = 129 /\ b = 159 -> 9670
      [] a = 129 /\ b = 173 -> 65287 [] a = 129 /\ b = 194 -> 8842
      [] a = 135 /\ b = 65  -> 9313  [] a = 135 /\ b = 129 -> 12319
      [] a = 135 /\ b = 135 -> 12966 [] a = 135 /\ b = 159 -> 20465
      [] a = 135 /\ b = 173 -> 20297 [] a = 135 /\ b = 194 -> 20628
      [] a = 159 /\ b = 65  -> 34327 [] a = 159 /\ b = 129 -> 27656
      [] a = 159 /\ b = 135 -> 27742 [] a = 159 /\ b = 159 -> 27834
      [] a = 159 /\ b = 173 -> 27922 [] a = 159 /\ b = 194 -> 28126
      [] OTHER -> -1

\* the two-byte sequences each codec accepts
PairsJis  == ({129} \X {65, 129, 135, 159}) \cup ({159} \X {65, 129, 135, 159, 173, 194})
PairsNec  == {135} \X {65, 129, 135}
PairsX213 == ({129} \X {173, 194}) \cup ({135} \X {173, 194})
Pairs2004 == {135} \X {159}

PairsOf(enc) ==
    CASE enc = "cp932"          -> PairsJis \cup PairsNec
      [] enc = "shift_jis"      -> PairsJis
      [] enc = "shift_jisx0213" -> PairsJis \cup PairsNec \cup PairsX213
      [] enc = "shift_jis_2004" -> PairsJis \cup PairsNec \cup PairsX213 \cup Pairs2004

\* data.decode(enc): [ok |-> FALSE] stands for UnicodeDecodeError.  The
\* tables cover ByteAlphabet; other bytes are reported undecodable.
RECURSIVE DecodeFrom(_, _, _, _)
DecodeFrom(enc, d, i, acc) ==
    IF i > Len(d) THEN [ok |-> TRUE, text |-> acc]
    ELSE IF d[i] \notin ByteAlphabet THEN [ok |-> FALSE, text |-> <<>>]
    ELSE IF IsSingle(d[i]) THEN DecodeFrom(enc, d, i + 1, Append(acc, SingleChar(d[i])))
    ELSE IF i + 1 <= Len(d) /\ <<d[i], d[i + 1]>> \in PairsOf(enc)
         THEN DecodeFrom(enc, d, i + 2, Append(acc, PairChar(d[i], d[i + 1])))
    ELSE [ok |-> FALSE, text |-> <<>>]

DecodeWith(enc, d) == DecodeFrom(enc, d, 1, <<>>)

is_probably_binary(data) == 0 \in Range(data)

\* the for loop of decode_shift_jis_family from candidate k on
RECURSIVE TryCandidates(_, _)
TryCandidates(data, k) ==
    IF k > Len(ENCODING_CANDIDATES) THEN [text |-> <<>>, enc |-> "None"]
    ELSE LET r == DecodeWith(ENCODING_CANDIDATES[k], data)
         IN  IF r.ok THEN [text |-> r.text, enc |-> ENCODING_CANDIDATES[k]]
             ELSE TryCandidates(data, k + 1)

decode_shift_jis_family(data) ==
    IF is_probably_binary(data) THEN [text |-> <<>>, enc |-> "None"]
    ELSE TryCandidates(data, 1)

\* lines 114-118 with the short-circuit forgotten
AlreadyUtf8_NoShortCircuit(data) == FALSE

\* lines 114-118: the file is left as it is when it decodes as UTF-8
AlreadyUtf8(data) == IsValidUtf8(data)

\* the result of convert_text_file_in_place on a file with the given suffix
\* and bytes: the returned value and the bytes the file holds afterwards
convert_text_file_in_place(suffix, data) ==
    IF Lower(suffix) \notin TEXT_EXTS THEN [used |-> "None", data |-> data]
    ELSE IF AlreadyUtf8(data) THEN [used |-> "None", data |-> data]
    ELSE LET r == decode_shift_jis_family(data)
         IN  IF r.enc = "None" THEN [used |-> "None", data |-> data]
             ELSE [used |-> r.enc, data |-> EncodeText(r.text)]

InitConvIdle ==
    /\ cPhase = "off"
    /\ cExt = <<>>
    /\ cOrig = <<>>
    /\ cData = <<>>
    /\ cAfter1 = <<>>
    /\ cUsed1 = "None"
    /\ cUsed2 = "None"

InitConv ==
    /\ cPhase = "fresh"
    /\ cExt \in Suffixes
    /\ cOrig \in SeqsUpTo(ByteAlphabet, MaxLen)
    /\ cData = cOrig
    /\ cAfter1 = <<>>
    /\ cUsed1 = "None"
    /\ cUsed2 = "None"

ConvertFirst ==
    /\ cPhase = "fresh"
    /\ LET r == convert_text_file_in_place(cExt, cData)
       IN  /\ cData' = r.data
           /\ cAfter1' = r.data
           /\ cUsed1' = r.used
    /\ cPhase' = "once"
    /\ UNCHANGED <<cExt, cOrig, cUsed2, fetchVars, extractVars, safeVars>>

ConvertSecond ==
    /\ cPhase = "once"
    /\ LET r == convert_text_file_in_place(cExt, cData)
       IN  /\ cData' = r.data
           /\ cUsed2' = r.used
    /\ cPhase' = "twice"
    /\ UNCHANGED <<cExt, cOrig, cAfter1, cUsed1, fetchVars, extractVars, safeVars>>

(***************************************************************************)
(*                 download_aozora_zip.py                                  *)
(***************************************************************************)
MaxRuns == 2
MaxLinks == 1
BodyChunks == 2

\* the work card pages the author page links to (card_links, in page order)
Cards == <<"card1", "card2">>

\* archive URLs; the server answers "z0" with an empty body
Urls == {"z0", "z1", "z2"}

BodyLen(u) == IF u = "z0" THEN 0 ELSE BodyChunks

\* the chunks r.iter_content yields for url u
Body(u) == [i \in 1..BodyLen(u) |-> <<u, i>>]

\* ---- file names ----
DigitChars == <<"0", "1", "2", "3", "4", "5", "6", "7", "8", "9">>

\* str(n) for n >= 0
RECURSIVE Str(_)
Str(n) == IF n < 10 THEN <<DigitChars[n + 1]>>
          ELSE Append(Str(n \div 10), DigitChars[(n % 10) + 1])

Max(a, b) == IF a >= b THEN a ELSE b

\* line 153: width = max(6, len(str(len(unique_zips))))
Width(total) == Max(6, Len(Str(total)))

\* f"{n:0{w}d}"
ZeroPad(n, w) ==
    LET s == Str(n)
    IN  [i \in 1..(Max(w, Len(s)) - Len(s)) |-> "0"] \o s

\* line 157: out_name = f"{file_id:0{width}d}.zip"
OutName(id, total) == Append(ZeroPad(id, Width(total)), ".zip")

\* line 99 with the body written straight to out_path
TmpPath_InPlace(out_path) == out_path

\* line 99: tmp_path = out_path.with_suffix(out_path.suffix + ".part")
TmpPath(out_path) == Append(out_path, ".part")

\* ---- the output directory ----
FsPut(f, n, c) == [m \in (DOMAIN f) \cup {n} |-> IF m = n THEN c ELSE f[m]]

\* tmp_path.replace(out_path)
FsReplace(f, from, to) ==
    [m \in ((DOMAIN f) \ {from}) \cup {to} |-> IF m = to THEN f[from] ELSE f[m]]

\* line 93 with the check dropped
ShouldSkip_Never(f, out_path) == FALSE

\* line 93: out_path.exists() and out_path.stat().st_size > 0
ShouldSkip(f, out_path) == out_path \in DOMAIN f /\ Len(f[out_path]) > 0

\* ---- link collection ----
\* lines 80-85: drop the later occurrences of a URL
RECURSIVE DedupUrls(_, _)
DedupUrls(urls, seen) ==
    IF urls = <<>> THEN <<>>
    ELSE IF Head(urls) \in seen THEN DedupUrls(Tail(urls), seen)
    ELSE <<Head(urls)>> \o DedupUrls(Tail(urls), seen \cup {Head(urls)})

extract_zip_links(hrefs) == DedupUrls(hrefs, {})

\* lines 136-137: all_zips.append((title, z)) for every z
TitledLinks(title, zip_urls) == [i \in 1..Len(zip_urls) |-> [title |-> title, url |-> zip_urls[i]]]

RECURSIVE DedupPairs(_, _)
DedupPairs(pairs, seen_zip) ==
    IF pairs = <<>> THEN <<>>
    ELSE IF Head(pairs).url \in seen_zip THEN DedupPairs(Tail(pairs), seen_zip)
    ELSE <<Head(pairs)>> \o DedupPairs(Tail(pairs), seen_zip \cup {Head(pairs).url})

\* lines 143-148 with the membership test dropped
UniqueZips_NoDedup(pairs) == pairs

\* lines 143-148
UniqueZips(pairs) == DedupPairs(pairs, {})

InRun == pc \in {"author", "cards", "download", "stream"}

\* the download loop is over and main is about to return 0
LoopDone == pc = "download" /\ file_id > Len(unique_zips)

\* the process is gone: its variables and counters go with it
ProcessExit ==
    /\ pc' = "idle"
    /\ fs0' = <<>>
    /\ card_idx' = 0
    /\ all_zips' = <<>>
    /\ unique_zips' = <<>>
    /\ file_id' = 0
    /\ chunk_pos' = 0
    /\ page_reqs' = 0
    /\ dl_reqs' = 0
    /\ attempts' = <<>>

CurUrl  == unique_zips[file_id].url
CurOut  == OutName(file_id, Len(unique_zips))

InitFetchIdle ==
    /\ site = <<>>
    /\ fs = <<>>
    /\ fs0 = <<>>
    /\ pc = "off"
    /\ runs = 0
    /\ card_idx = 0
    /\ all_zips = <<>>
    /\ unique_zips = <<>>
    /\ file_id = 0
    /\ chunk_pos = 0
    /\ page_reqs = 0
    /\ dl_reqs = 0
    /\ exit_code = -1
    /\ attempts = <<>>

InitFetch ==
    /\ site \in [1..Len(Cards) -> SeqsUpTo(Urls, MaxLinks)]
    /\ fs = <<>>
    /\ fs0 = <<>>
    /\ pc = "idle"
    /\ runs = 0
    /\ card_idx = 0
    /\ all_zips = <<>>
    /\ unique_zips = <<>>
    /\ file_id = 0
    /\ chunk_pos = 0
    /\ page_reqs = 0
    /\ dl_reqs = 0
    /\ exit_code = -1
    /\ attempts = <<>>

fetchOthers == <<extractVars, convVars, safeVars>>

\* python download_aozora_zip.py: main up to line 120
StartRun ==
    /\ pc = "idle"
    /\ runs < MaxRuns
    /\ runs' = runs + 1
    /\ pc' = "author"
    /\ fs0' = fs
    /\ exit_code' = -1
    /\ UNCHANGED <<site, fs, card_idx, all_zips, unique_zips, file_id, chunk_pos,
                   page_reqs, dl_reqs, attempts, fetchOthers>>

\* lines 121-126: the author page is fetched and scanned
FetchAuthorOk ==
    /\ pc = "author"
    /\ page_reqs' = page_reqs + 1
    /\ pc' = "cards"
    /\ UNCHANGED <<site, fs, fs0, runs, card_idx, all_zips, unique_zips, file_id,
                   chunk_pos, dl_reqs, exit_code, attempts, fetchOthers>>

\* line 121: fetch_html raises and nothing catches it; the interpreter
\* prints the traceback and exits with status 1
FetchAuthorFail ==
    /\ pc = "author"
    /\ ProcessExit
    /\ exit_code' = 1
    /\ UNCHANGED <<site, fs, runs, fetchOthers>>

\* lines 128-140, one iteration whose fetch_html succeeds
FetchCardOk ==
    /\ pc = "cards"
    /\ card_idx < Len(Cards)
    /\ card_idx' = card_idx + 1
    /\ page_reqs' = page_reqs + 1
    /\ all_zips' = all_zips \o TitledLinks(Cards[card_idx + 1],
                                           extract_zip_links(site[card_idx + 1]))
    /\ UNCHANGED <<site, fs, fs0, pc, runs, unique_zips, file_id, chunk_pos,
                   dl_reqs, exit_code, attempts, fetchOthers>>

\* lines 128-133, one iteration whose fetch_html raises
FetchCardFail ==
    /\ pc = "cards"
    /\ card_idx < Len(Cards)
    /\ card_idx' = card_idx + 1
    /\ page_reqs' = page_reqs + 1
    /\ UNCHANGED <<site, fs, fs0, pc, runs, all_zips, unique_zips, file_id, chunk_pos,
                   dl_reqs, exit_code, attempts, fetchOthers>>

\* lines 142-153
Deduplicate ==
    /\ pc = "cards"
    /\ card_idx = Len(Cards)
    /\ unique_zips' = UniqueZips(all_zips)
    /\ file_id' = 1
    /\ pc' = "download"
    /\ UNCHANGED <<site, fs, fs0, runs, card_idx, all_zips, chunk_pos, page_reqs,
                   dl_reqs, exit_code, attempts, fetchOthers>>

\* download_file, lines 92-95: the file is there, nothing is requested
DownloadSkip ==
    /\ pc = "download"
    /\ file_id <= Len(unique_zips)
    /\ ShouldSkip(fs, CurOut)
    /\ attempts' = Append(attempts, [url |-> CurUrl, name |-> CurOut])
    /\ file_id' = file_id + 1
    /\ UNCHANGED <<site, fs, fs0, pc, runs, card_idx, all_zips, unique_zips, chunk_pos,
                   page_reqs, dl_reqs, exit_code, fetchOthers>>

\* download_file, lines 97-100: the request succeeds and the .part file is
\* opened for writing (created, or truncated when a stale one is there)
DownloadBegin ==
    /\ pc = "download"
    /\ file_id <= Len(unique_zips)
    /\ ~ShouldSkip(fs, CurOut)
    /\ attempts' = Append(attempts, [url |-> CurUrl, name |-> CurOut])
    /\ dl_reqs' = dl_reqs + 1
    /\ fs' = FsPut(fs, TmpPath(CurOut), <<>>)
    /\ chunk_pos' = 0
    /\ pc' = "stream"
    /\ UNCHANGED <<site, fs0, runs, card_idx, all_zips, unique_zips, file_id,
                   page_reqs, exit_code, fetchOthers>>

\* download_file, lines 97-98: session.get or raise_for_status raises; main
\* catches it at line 162 and goes on with the next file
DownloadGetFail ==
    /\ pc = "download"
    /\ file_id <= Len(unique_zips)
    /\ ~ShouldSkip(fs, CurOut)
    /\ attempts' = Append(attempts, [url |-> CurUrl, name |-> CurOut])
    /\ dl_reqs' = dl_reqs + 1
    /\ file_id' = file_id + 1
    /\ UNCHANGED <<site, fs, fs0, pc, runs, card_idx, all_zips, unique_zips, chunk_pos,
                   page_reqs, exit_code, fetchOthers>>

\* lines 101-103: one chunk of the body is written to the .part file
WriteChunk ==
    /\ pc = "stream"
    /\ chunk_pos < BodyLen(CurUrl)
    /\ fs' = FsPut(fs, TmpPath(CurOut),
                   Append(fs[TmpPath(CurOut)], Body(CurUrl)[chunk_pos + 1]))
    /\ chunk_pos' = chunk_pos + 1
    /\ UNCHANGED <<site, fs0, pc, runs, card_idx, all_zips, unique_zips, file_id,
                   page_reqs, dl_reqs, exit_code, attempts, fetchOthers>>

\* line 101: the connection breaks while the body is read; the exception
\* leaves download_file and is caught at line 162
StreamFail ==
    /\ pc = "stream"
    /\ chunk_pos < BodyLen(CurUrl)
    /\ pc' = "download"
    /\ file_id' = file_id + 1
    /\ UNCHANGED <<site, fs, fs0, runs, card_idx, all_zips, unique_zips, chunk_pos,
                   page_reqs, dl_reqs, exit_code, attempts, fetchOthers>>

\* line 104: the body is complete, tmp_path.replace(out_path)
Rename ==
    /\ pc = "stream"
    /\ chunk_pos = BodyLen(CurUrl)
    /\ fs' = FsReplace(fs, TmpPath(CurOut), CurOut)
    /\ pc' = "download"
    /\ file_id' = file_id + 1
    /\ UNCHANGED <<site, fs0, runs, card_idx, all_zips, unique_zips, chunk_pos,
                   page_reqs, dl_reqs, exit_code, attempts, fetchOthers>>

\* lines 167-168
Finish ==
    /\ LoopDone
    /\ ProcessExit
    /\ exit_code' = 0
    /\ UNCHANGED <<site, fs, runs, fetchOthers>>

\* the process is killed from outside at any point of a run (status 137);
\* the files stay as they are
Crash ==
    /\ InRun
    /\ ProcessExit
    /\ exit_code' = 137
    /\ UNCHANGED <<site, fs, runs, fetchOthers>>

NextFetch ==
    \/ StartRun
    \/ FetchAuthorOk
    \/ FetchAuthorFail
    \/ FetchCardOk
    \/ FetchCardFail
    \/ Deduplicate
    \/ DownloadSkip
    \/ DownloadBegin
    \/ DownloadGetFail
    \/ WriteChunk
    \/ StreamFail
    \/ Rename
    \/ Finish
    \/ Crash


(***************************************************************************)
(*        aozora_unzip_utf8.py : main, process_zip, extract_member         *)
(***************************************************************************)
MaxMembers == 3

\* the working directory of the process, as an absolute location
Cwd == <<"w">>

\* dest_dir = OUT_DIR / zip_stem, a relative path (lines 30, 130-131)
DestDir == [abs |-> FALSE, parts |-> <<"out", "s">>]

\* what exists after dest_dir.mkdir(parents=True, exist_ok=True), line 132
InitialDirs == {<<>>, <<"w">>, <<"w", "out">>, <<"w", "out", "s">>}

\* The member names the archives are built from.  Relative names: the empty
\* name, plain names, a ".." that stays inside dest_dir, names that leave
\* dest_dir, and names that leave it and come back.  Absolute names: outside
\* dest_dir, beside it and inside it.
RelNames == { <<>>, <<"o">>, <<"o", "o">>, <<"o", "..", "s">>,
              <<"..", "o">>, <<"..", "..", "o">>,
              <<"..", "s", "o">>, <<"..", "o", "..", "s">>, <<"..", "o", "..", "s", "o">> }
AbsNames == { <<"o">>, <<"w", "out", "o">>, <<"w", "out", "s", "o">> }

\* a ZipInfo: the name split at "/", whether it starts with "/", whether it
\* ends with "/" (is_dir), whether zipf.open can read it, and whether it is a
\* text file in a legacy encoding that convert_text_file_in_place converts
Members ==
    { m \in [abs : BOOLEAN, parts : RelNames \cup AbsNames,
             is_dir : BOOLEAN, readable : BOOLEAN, legacy : BOOLEAN] :
        /\ m.abs <=> m.parts \in AbsNames
        /\ m.is_dir => (m.readable /\ ~m.legacy)
        /\ m.legacy => m.readable }

\* ---- paths ----
Parent(loc) == IF loc = <<>> THEN <<>> ELSE SubSeq(loc, 1, Len(loc) - 1)

StepInto(loc, c) == IF c = ".." THEN Parent(loc) ELSE Append(loc, c)

StartOf(p) == IF p.abs THEN <<>> ELSE Cwd

\* dest_dir / member.filename
Join(base, m) ==
    IF m.abs THEN [abs |-> TRUE, parts |-> m.parts]
    ELSE [abs |-> base.abs, parts |-> base.parts \o m.parts]

\* Path.parent
PathParent(p) == [p EXCEPT !.parts = Parent(@)]

\* Path.resolve(): no symbolic link exists in the output tree, so ".."
\* cancels the component before it
RECURSIVE ResolveFrom(_, _)
ResolveFrom(loc, parts) ==
    IF parts = <<>> THEN loc ELSE ResolveFrom(StepInto(loc, Head(parts)), Tail(parts))

Resolve(p) == ResolveFrom(StartOf(p), p.parts)

\* str(t).startswith(str(b) + os.sep)
StartsWithDir(t, b) == Len(t) > Len(b) /\ IsPrefix(b, t)

\* line 76 applied to the paths as given, without resolve()
ensure_within_dir_Unresolved(base, target) ==
    StartsWithDir(target.parts, base.parts) \/ target.parts = base.parts

\* ensure_within_dir returns (TRUE) or raises ValueError (FALSE)
ensure_within_dir(base, target) ==
    LET base_resolved   == Resolve(base)
        target_resolved == Resolve(target)
    IN  StartsWithDir(target_resolved, base_resolved) \/ target_resolved = base_resolved

\* ---- the operating system's view of a path ----
\* every component is looked up in the directory reached so far
RECURSIVE WalkFrom(_, _, _, _)
WalkFrom(loc, parts, D, F) ==
    IF parts = <<>> THEN [err |-> "ok", loc |-> loc]
    ELSE IF loc \in F THEN [err |-> "ENOTDIR", loc |-> loc]
    ELSE IF loc \notin D THEN [err |-> "ENOENT", loc |-> loc]
    ELSE WalkFrom(StepInto(loc, Head(parts)), Tail(parts), D, F)

Walk(p, D, F) == WalkFrom(StartOf(p), p.parts, D, F)

\* os.mkdir(p)
OsMkdir(p, D, F) ==
    LET w == Walk(p, D, F)
    IN  IF w.err # "ok" THEN [err |-> w.err, dirs |-> D]
        ELSE IF w.loc \in D \cup F THEN [err |-> "EEXIST", dirs |-> D]
        ELSE [err |-> "ok", dirs |-> D \cup {w.loc}]

\* Path.is_dir()
IsDir(p, D, F) == LET w == Walk(p, D, F) IN w.err = "ok" /\ w.loc \in D

\* Path.mkdir(parents=True, exist_ok=True)
RECURSIVE PathMkdir(_, _, _)
PathMkdir(p, D, F) ==
    LET r == OsMkdir(p, D, F)
    IN  IF r.err = "ok" THEN r
        ELSE IF r.err = "ENOENT"
        THEN IF p.parts = <<>> THEN r
             ELSE LET r1 == PathMkdir(PathParent(p), D, F)
                  IN  IF r1.err # "ok" THEN r1
                      ELSE LET r2 == OsMkdir(p, r1.dirs, F)
                           IN  IF r2.err \in {"ok", "ENOENT"} THEN r2
                               ELSE IF IsDir(p, r1.dirs, F)
                                    THEN [err |-> "ok", dirs |-> r1.dirs]
                                    ELSE r2
        ELSE IF IsDir(p, D, F) THEN [err |-> "ok", dirs |-> D] ELSE r

\* extract_member: the outcome ("ok", "rejected" for the ValueError of
\* ensure_within_dir, "oserror" for any other exception) and what exists
\* afterwards
extract_member(m, D, F) ==
    LET out_path == Join(DestDir, m)
    IN  IF ~ensure_within_dir(DestDir, out_path)
        THEN [outcome |-> "rejected", dirs |-> D, files |-> F]
        ELSE IF m.is_dir
        THEN LET r == PathMkdir(out_path, D, F)
             IN  [outcome |-> IF r.err = "ok" THEN "ok" ELSE "oserror",
                  dirs |-> r.dirs, files |-> F]
        ELSE LET r == PathMkdir(PathParent(out_path), D, F)
                 w == Walk(out_path, r.dirs, F)
             IN  IF r.err # "ok" \/ ~m.readable \/ w.err # "ok" \/ w.loc \in r.dirs
                 THEN [outcome |-> "oserror", dirs |-> r.dirs, files |-> F]
                 ELSE [outcome |-> "ok", dirs |-> r.dirs, files |-> F \cup {w.loc}]

\* line 155: extracted_path.relative_to(dest_dir) raises ValueError when
\* extracted_path does not start with dest_dir as written
RelativeToRaises(out_path) ==
    ~(out_path.abs = DestDir.abs /\ IsPrefix(DestDir.parts, out_path.parts))

\* the converted file is reported (line 155) and the report raises
ReportRaises(m, res) ==
    /\ res.outcome = "ok"
    /\ ~m.is_dir
    /\ m.legacy
    /\ RelativeToRaises(Join(DestDir, m))

NoMember == [name |-> <<>>, outside |-> FALSE, dotdot |-> FALSE, plain |-> FALSE, outcome |-> "none",
             changed |-> FALSE, target |-> <<>>]

\* what the properties need to know about the member just processed
Observe(m, res, D, F) ==
    [name    |-> m.parts,
     outside |-> ~(LET t == Resolve(Join(DestDir, m)) b == Resolve(DestDir)
                   IN  t = b \/ StartsWithDir(t, b)),
     dotdot  |-> ".." \in Range(m.parts),
     plain   |-> ~m.abs /\ ~m.is_dir /\ m.readable /\ m.parts # <<>>
                 /\ ".." \notin Range(m.parts),
     outcome |-> res.outcome,
     changed |-> res.dirs # D \/ res.files # F,
     target  |-> Resolve(Join(DestDir, m))]

InitExtractIdle ==
    /\ dirs = {}
    /\ files = {}
    /\ xphase = "off"
    /\ nmembers = 0
    /\ outcomes = <<>>
    /\ last = NoMember
    /\ x_exit = -1

InitExtract ==
    /\ dirs = InitialDirs \ {<<"w", "out">>, <<"w", "out", "s">>}
    /\ files = {}
    /\ xphase = "start"
    /\ nmembers = 0
    /\ outcomes = <<>>
    /\ last = NoMember
    /\ x_exit = -1

extractOthers == <<fetchVars, convVars, safeVars>>

\* main, lines 163-165
MainInputMissing ==
    /\ xphase = "start"
    /\ xphase' = "exited"
    /\ x_exit' = 2
    /\ UNCHANGED <<dirs, files, nmembers, outcomes, last, extractOthers>>

\* main, lines 167-172
MainNoZips ==
    /\ xphase = "start"
    /\ dirs' = dirs \cup {<<"w", "out">>}
    /\ xphase' = "exited"
    /\ x_exit' = 1
    /\ UNCHANGED <<files, nmembers, outcomes, last, extractOthers>>

\* main line 167 and process_zip lines 130-137: the archive opens
OpenArchive ==
    /\ xphase = "start"
    /\ dirs' = InitialDirs
    /\ nmembers' \in 1..MaxMembers
    /\ xphase' = "open"
    /\ UNCHANGED <<files, outcomes, last, x_exit, extractOthers>>

\* process_zip line 136 raises BadZipFile, caught at line 181
BadZip ==
    /\ xphase = "start"
    /\ dirs' = InitialDirs
    /\ xphase' = "badzip"
    /\ UNCHANGED <<files, nmembers, outcomes, last, x_exit, extractOthers>>

MemberStep(m, res) ==
    /\ dirs' = res.dirs
    /\ files' = res.files
    /\ outcomes' = Append(outcomes, res.outcome)
    /\ last' = Observe(m, res, dirs, files)
    /\ UNCHANGED <<nmembers, x_exit, extractOthers>>

MoreMembers == xphase = "open" /\ Len(outcomes) < nmembers

\* lines 139-144: ensure_within_dir raises, the member is skipped
MemberRejected ==
    /\ MoreMembers
    /\ \E m \in Members :
         LET res == extract_member(m, dirs, files)
         IN  /\ res.outcome = "rejected"
             /\ MemberStep(m, res)
             /\ UNCHANGED xphase

\* lines 139-144: another exception leaves extract_member, the member is skipped
MemberFailed ==
    /\ MoreMembers
    /\ \E m \in Members :
         LET res == extract_member(m, dirs, files)
         IN  /\ res.outcome = "oserror"
             /\ MemberStep(m, res)
             /\ UNCHANGED xphase

\* lines 139-159: the member is extracted and, when it is a text file,
\* converted and reported
MemberExtracted ==
    /\ MoreMembers
    /\ \E m \in Members :
         LET res == extract_member(m, dirs, files)
         IN  /\ res.outcome = "ok"
             /\ ~ReportRaises(m, res)
             /\ MemberStep(m, res)
             /\ UNCHANGED xphase

\* lines 154-155: the report of a conversion raises ValueError outside any
\* try of process_zip; main catches it at line 183 and the rest of the
\* archive is not processed
MemberAbortsArchive ==
    /\ MoreMembers
    /\ \E m \in Members :
         LET res == extract_member(m, dirs, files)
         IN  /\ ReportRaises(m, res)
             /\ MemberStep(m, res)
             /\ xphase' = "aborted"

\* the for loop of process_zip ends, the archive is closed
CloseArchive ==
    /\ xphase = "open"
    /\ Len(outcomes) = nmembers
    /\ xphase' = "closed"
    /\ UNCHANGED <<dirs, files, nmembers, outcomes, last, x_exit, extractOthers>>

\* main, lines 186-187
MainDone ==
    /\ xphase \in {"closed", "aborted", "badzip"}
    /\ xphase' = "exited"
    /\ x_exit' = 0
    /\ UNCHANGED <<dirs, files, nmembers, outcomes, last, extractOthers>>

NextExtract ==
    \/ MainInputMissing
    \/ MainNoZips
    \/ OpenArchive
    \/ BadZip
    \/ MemberRejected
    \/ MemberFailed
    \/ MemberExtracted
    \/ MemberAbortsArchive
    \/ CloseArchive
    \/ MainDone

InitExtractAll == InitExtract /\ InitFetchIdle /\ InitConvIdle /\ InitSafeIdle

SpecExtract == InitExtractAll /\ [][NextExtract]_vars

InitFetchAll == InitFetch /\ InitExtractIdle /\ InitConvIdle /\ InitSafeIdle

SpecFetch == InitFetchAll /\ [][NextFetch]_vars

NextConvert == ConvertFirst \/ ConvertSecond

InitConvertAll == InitConv /\ InitFetchIdle /\ InitExtractIdle /\ InitSafeIdle

SpecConvert == InitConvertAll /\ [][NextConvert]_vars

NextSafeName == Sanitize

InitSafeNameAll == InitSafe /\ InitFetchIdle /\ InitExtractIdle /\ InitConvIdle

SpecSafeName == InitSafeNameAll /\ [][NextSafeName]_vars

(***************************************************************************)
(*                         The claims                                      *)
(***************************************************************************)
IsFinalName(n) == n # <<>> /\ n[Len(n)] = ".zip"
IsTmpName(n)   == n # <<>> /\ n[Len(n)] = ".part"
CompleteBody(c) == \E u \in Urls : c = Body(u)

\* C1 (SpecFetch): whatever the runs did and wherever they were interrupted,
\* a file whose name ends in ".zip" holds the complete body of an archive
\* URL; an incomplete body is only ever found under a ".part" name.
C1_FinalNameComplete ==
    \A n \in DOMAIN fs : IsFinalName(n) => CompleteBody(fs[n])

\* C1 witness: a run was killed while a body was being written; the partial
\* body sits under the ".part" name next to a finished download.
C1_KilledMidDownload ==
    /\ pc = "idle"
    /\ exit_code = 137
    /\ \E n \in DOMAIN fs : IsTmpName(n) /\ fs[n] # <<>> /\ ~CompleteBody(fs[n])
    /\ \E n \in DOMAIN fs : IsFinalName(n) /\ fs[n] # <<>>

\* ---- C4 ----
AllUrls == {all_zips[i].url : i \in 1..Len(all_zips)}

FirstIndex(u) == CHOOSE i \in 1..Len(all_zips) :
                    /\ all_zips[i].url = u
                    /\ \A j \in 1..(i - 1) : all_zips[j].url # u

\* number of decimal digits of n >= 1, by comparison with the powers of ten
RECURSIVE DigitsAbove(_, _, _)
DigitsAbove(n, d, pow) == IF n < pow THEN d ELSE DigitsAbove(n, d + 1, pow * 10)
NumDigits(n) == DigitsAbove(n, 1, 10)

DigitValue(c) == CHOOSE v \in 0..9 : DigitChars[v + 1] = c

RECURSIVE DecimalValue(_)
DecimalValue(ds) ==
    IF ds = <<>> THEN 0
    ELSE 10 * DecimalValue(SubSeq(ds, 1, Len(ds) - 1)) + DigitValue(ds[Len(ds)])

\* name is the decimal of k, zero-padded to max(6, digits of total), + ".zip"
IsSequentialName(name, k, total) ==
    LET w == IF NumDigits(total) > 6 THEN NumDigits(total) ELSE 6
    IN  /\ Len(name) = w + 1
        /\ name[w + 1] = ".zip"
        /\ \A i \in 1..w : name[i] \in Range(DigitChars)
        /\ DecimalValue(SubSeq(name, 1, w)) = k

\* list lengths around the point where the width grows past six digits
NamingTotals == {1, 9, 10, 321, 999999, 1000000, 1000001, 12345678}

\* OutName on the sample of list lengths and positions
NamingSampleOk ==
    \A total \in NamingTotals :
       \A id \in {1, (total + 1) \div 2, total} :
          IsSequentialName(OutName(id, total), id, total)

\* C4 (SpecFetch): the download phase calls download_file once per distinct
\* URL of all_zips, in order of first occurrence, and the k-th call gets the
\* file name made of k zero-padded to max(6, digits of the count) and ".zip";
\* a URL found on two card pages is downloaded to one file only.
C4_SequentialNames ==
    /\ pc \in {"download", "stream"} =>
         /\ \A k \in 1..Len(attempts) :
              /\ attempts[k].url \in AllUrls
              /\ IsSequentialName(attempts[k].name, k, Cardinality(AllUrls))
              /\ \A j \in 1..(k - 1) :
                   FirstIndex(attempts[j].url) < FirstIndex(attempts[k].url)
              /\ \A u \in AllUrls :
                   FirstIndex(u) < FirstIndex(attempts[k].url)
                     => \E j \in 1..(k - 1) : attempts[j].url = u
         /\ LoopDone => Len(attempts) = Cardinality(AllUrls)
    /\ NamingSampleOk

\* C4 witness: both card pages linked the same archive and the download loop
\* is over after one call.
C4_SharedArchiveOnce ==
    /\ LoopDone
    /\ Len(all_zips) = 2
    /\ Len(attempts) = 1

\* ---- C5 ----
\* the run found archives and every file it was going to write was already
\* there, non-empty, when it started
ReRunWithOutputs ==
    /\ LoopDone
    /\ unique_zips # <<>>
    /\ \A k \in 1..Len(unique_zips) :
         LET n == OutName(k, Len(unique_zips))
         IN  n \in DOMAIN fs0 /\ fs0[n] # <<>>

\* C5 as stated (SpecFetch): such a run performs no network request at all
\* and leaves the files unchanged.
C5_ZeroRequests ==
    ReRunWithOutputs => (page_reqs + dl_reqs = 0 /\ fs = fs0)

\* C5 as amended (SpecFetch): such a run requests no archive and leaves the
\* output directory unchanged; the author page and the card pages are
\* requested as in any run.
C5_ZeroDownloads ==
    ReRunWithOutputs => (dl_reqs = 0 /\ fs = fs0 /\ page_reqs = 1 + Len(Cards))

\* C5 witness: a second run that found two archives, both already on disk.
C5_SecondRunAllSkipped ==
    /\ ReRunWithOutputs
    /\ runs = 2
    /\ Len(unique_zips) = 2

\* C7 (SpecFetch): a run that was not killed from outside ends with exit
\* status 0 whatever fetch failed; the fetcher has no input directory and no
\* input files whose absence could end it early.
C7_FetchFailureKeepsExitCode ==
    (pc = "idle" /\ runs > 0 /\ exit_code # 137) => exit_code = 0

\* C7, extractor side (SpecExtract): an archive whose processing started is
\* left only after every member was processed.
C7_EveryMemberProcessed ==
    xphase = "exited" /\ x_exit = 0 /\ nmembers > 0 => Len(outcomes) = nmembers

\* C10 (SpecFetch): when the download loop of a run is over, every non-empty
\* file at sequential name k holds the body of the k-th URL of that run's
\* deduplicated list.
C10_NameBoundToUrl ==
    LoopDone =>
      \A k \in 1..Len(unique_zips) :
         LET n == OutName(k, Len(unique_zips))
         IN  (n \in DOMAIN fs /\ fs[n] # <<>>) => fs[n] = Body(unique_zips[k].url)

\* ---- C2, C3 ----
DestLoc == <<"w", "out", "s">>
Inside(loc) == IsPrefix(DestLoc, loc)

\* C2 (SpecExtract): every directory and every file that extraction created
\* lies in the destination directory.
C2_Containment ==
    \A loc \in (dirs \ InitialDirs) \cup files : Inside(loc)

\* C3 as stated (SpecExtract): a member whose name contains ".." is rejected,
\* so it is never extracted.
C3_TraversalRejected ==
    (last.outcome # "none" /\ last.dotdot) => last.outcome # "ok"

AncestorIsFile(loc, F) == \E n \in 0..(Len(loc) - 1) : SubSeq(loc, 1, n) \in F

C3_State ==
    /\ last.outcome # "none" => (last.outside <=> last.outcome = "rejected")
    /\ last.outcome = "rejected" => ~last.changed
    /\ \A f \in files : Inside(f)
    /\ xphase = "aborted" => last.outcome = "ok"
    /\ xphase = "closed" => Len(outcomes) = nmembers

C3_SiblingStep ==
    ( /\ Len(outcomes') = Len(outcomes) + 1
      /\ last'.plain
      /\ last'.target \notin dirs
      /\ ~AncestorIsFile(last'.target, files) )
    => (last'.outcome = "ok" /\ last'.target \in files')

\* C3 as amended (SpecExtract): a member is rejected exactly when its
\* resolved path lies outside the destination directory; a rejection changes
\* nothing on disk and does not end the member loop; no file is ever written
\* outside the destination directory; and a plain member (relative, no "..",
\* readable) whose place is free is extracted whatever happened to the
\* members before it.
C3_EscapingRejected == [](C3_State) /\ [][C3_SiblingStep]_vars

\* C3 witness: a member was extracted, the next was rejected, the one after
\* it was extracted.
C3_SiblingsAroundRejection ==
    /\ outcomes = <<"ok", "rejected", "ok">>
    /\ last.plain
    /\ Cardinality(files) = 2

\* ---- C6, C9 ----
\* C6 (SpecConvert): the second application of convert_text_file_in_place
\* changes nothing and returns None, and a file that is valid UTF-8 is not
\* touched by the first one.
C6_Idempotent ==
    /\ cPhase = "twice" => (cData = cAfter1 /\ cUsed2 = "None")
    /\ (cPhase \in {"once", "twice"} /\ IsValidUtf8(cOrig))
         => (cAfter1 = cOrig /\ cUsed1 = "None")

\* C6 witness: a file that the first application converted went through the
\* second one.
C6_ConvertedThenReapplied ==
    /\ cPhase = "twice"
    /\ cUsed1 # "None"
    /\ cAfter1 # cOrig

TextSuffixesAnyCase ==
    { <<".", "t", "x", "t">>, <<".", "T", "X", "T">>, <<".", "H", "t", "m">>,
      <<".", "h", "t", "m", "l">> }

Decodes(enc) == DecodeWith(enc, cOrig).ok

FirstDecoder ==
    IF Decodes("cp932") THEN "cp932"
    ELSE IF Decodes("shift_jis") THEN "shift_jis"
    ELSE IF Decodes("shift_jisx0213") THEN "shift_jisx0213"
    ELSE IF Decodes("shift_jis_2004") THEN "shift_jis_2004"
    ELSE "None"

\* C9 (SpecConvert): the file is rewritten as the UTF-8 encoding of the
\* decoded text, and the encoding returned, exactly when its suffix is
\* .txt/.htm/.html in any case, its bytes are not valid UTF-8, hold no null
\* byte and decode under a candidate; the encoding is the first of cp932,
\* shift_jis, shift_jisx0213, shift_jis_2004 that decodes.  Otherwise the
\* file keeps its bytes and None is returned.
C9_Decision ==
    cPhase \in {"once", "twice"} =>
      IF /\ cExt \in TextSuffixesAnyCase
         /\ ~IsValidUtf8(cOrig)
         /\ 0 \notin Range(cOrig)
         /\ FirstDecoder # "None"
      THEN /\ cUsed1 = FirstDecoder
           /\ cAfter1 = EncodeText(DecodeWith(FirstDecoder, cOrig).text)
           /\ cAfter1 # cOrig
      ELSE /\ cUsed1 = "None"
           /\ cAfter1 = cOrig

\* C9 witness: cp932 and shift_jis failed and shift_jisx0213 decoded a file
\* with an upper-case suffix.
C9_ThirdCandidateUsed ==
    /\ cPhase = "once"
    /\ cUsed1 = "shift_jisx0213"
    /\ cExt = <<".", "T", "X", "T">>

\* C8 (SpecSafeName): the result holds none of \ / : * ? " < > |, is not
\* empty, and neither starts nor ends with whitespace or a dot.
C8_Postcondition ==
    sPhase = "done" =>
      /\ sResult # <<>>
      /\ Range(sResult) \cap ForbiddenChars = {}
      /\ sResult[1] \notin Whitespace \cup {"."}
      /\ sResult[Len(sResult)] \notin Whitespace \cup {"."}

=============================================================================
